---------------------------- MODULE Spec2Model ----------------------------
(* A model of the solitaire engine of src/main.py: the card piles, the     *)
(* transfer rules, the draw/recycle step, the history stack with undo, the *)
(* completion test and the play loop that drives them.                     *)
EXTENDS Integers, Sequences, FiniteSets, TLC

(***************************************************************************)
(* Bounds of the model.                                                    *)
(***************************************************************************)
\* Games are played with max_rank in 1..MaxRankBound.
MaxRankBound == 3
\* Number of shuffles explored for each max_rank.
NumDeals == 6
\* The play loop accepts requests while move_number <= MaxMoves.
MaxMoves == 4
\* The 'm<number>' command submits counts in -NegCounts..MaxCount.
MaxCount == 3
NegCounts == 1
\* The draw-only play loop accepts requests while move_number <= MaxDraws.
MaxDraws == 7

(***************************************************************************)
(* Cards and piles.                                                        *)
(***************************************************************************)
\* enum Suit, in declaration order (the order of the foundations dict)
Suits == <<"CLUBS", "DIAMONDS", "HEARTS", "SPADES">>

SuitSet == {Suits[k] : k \in 1..Len(Suits)}

\* Card(rank, suit): a new card is hidden
Card(rank, suit) == [rank |-> rank, suit |-> suit, hidden |-> TRUE]

is_red(card) == card.suit \in {"HEARTS", "DIAMONDS"}

is_black(card) == card.suit \in {"CLUBS", "SPADES"}

\* Python's items[-number] as a 1-based position of items, 0 for IndexError.
PeekIndex(items, number) ==
    LET n == Len(items)
        i == IF -number < 0 THEN n - number ELSE -number    \* 0-based index
    IN  IF i < 0 \/ i >= n THEN 0 ELSE i + 1

\* CardPile.peek(number); only used where PeekIndex(items, number) # 0
peek(items, number) == items[PeekIndex(items, number)]

\* The normalised slice bound of items[-number:] and items[:-number]:
\* the number of cards that stay in the pile.
CutPoint(items, number) ==
    LET n == Len(items)
    IN  IF -number < 0
        THEN (IF n - number < 0 THEN 0 ELSE n - number)
        ELSE (IF -number > n THEN n ELSE -number)

\* CardPile.cut(number): the cards returned (items[-number:])
CutItems(items, number) ==
    SubSeq(items, CutPoint(items, number) + 1, Len(items))

\* A variant of CutRest with the slice bound taken from the length,
\* items[:len(items) - number]: it keeps every card when number <= 0.
CutRestFromLength(items, number) ==
    LET n == Len(items)
        k == n - number
    IN  SubSeq(items, 1, IF k > n THEN n
                         ELSE IF k >= 0 THEN k
                         ELSE IF n + k < 0 THEN 0 ELSE n + k)

\* CardPile.cut(number): the cards left in the pile (items[:-number])
CutRest(items, number) ==
    SubSeq(items, 1, CutPoint(items, number))

\* CardPile.extend(items)
extend(items, more) == items \o more

\* CardPile.add_top(item)
add_top(items, item) == Append(items, item)

\* reversed(items)
RECURSIVE reversed(_)
reversed(items) ==
    IF items = <<>> THEN <<>>
    ELSE Append(reversed(Tail(items)), Head(items))

\* the top card of a pile with its hidden flag set to h
SetTopHidden(items, h) ==
    Append(SubSeq(items, 1, Len(items) - 1),
           [items[Len(items)] EXCEPT !.hidden = h])

(***************************************************************************)
(* The deal.                                                               *)
(***************************************************************************)
\* math.floor(math.sqrt(n))
ISqrt(n) == CHOOSE k \in 0..n : k * k <= n /\ (k + 1) * (k + 1) > n

NumPiles(mr) == ISqrt(4 * mr)

\* deck = [Card(rank, suit) for suit in Suit for rank in range(1, max_rank+1)]
\* (the first n cards of it, built card by card)
RECURSIVE DeckPrefix(_, _)
DeckPrefix(mr, n) ==
    IF n = 0 THEN <<>>
    ELSE Append(DeckPrefix(mr, n - 1),
                Card(((n - 1) % mr) + 1, Suits[((n - 1) \div mr) + 1]))

NewDeck(mr) == DeckPrefix(mr, 4 * mr)

\* The generator that stands for the random source of random.shuffle.
NextRand(s) == (s * 75 + 74) % 65537

\* x[i], x[j] = x[j], x[i]  (j <= i)
Swap(deck, i, j) ==
    IF i = j THEN deck
    ELSE SubSeq(deck, 1, j - 1) \o <<deck[i]>> \o SubSeq(deck, j + 1, i - 1)
         \o <<deck[j]>> \o SubSeq(deck, i + 1, Len(deck))

\* random.shuffle: for i from the last position down to the second, swap
\* position i with a random position of 1..i.
RECURSIVE Shuffle(_, _, _)
Shuffle(deck, i, s) ==
    IF i <= 1 THEN deck
    ELSE Shuffle(Swap(deck, i, (NextRand(s) % i) + 1), i - 1, NextRand(s))

\* Number of cards dealt to the tableau columns 1..k: 1 + 2 + ... + k
Dealt(k) == (k * (k + 1)) \div 2

\* Column p (1-based) takes p cards by deck.pop(), its last card face up.
DealPile(deck, p) ==
    LET n == Len(deck) - Dealt(p - 1)
        taken == reversed(SubSeq(deck, n - p + 1, n))
    IN  SetTopHidden(taken, FALSE)

\* self.piles after the staircase deal: columns 1..np
RECURSIVE DealPiles(_, _)
DealPiles(deck, np) ==
    IF np = 0 THEN <<>>
    ELSE Append(DealPiles(deck, np - 1), DealPile(deck, np))

\* self.foundations = {suit: CardPile() for suit in Suit}, first k suits
RECURSIVE EmptyFoundations(_)
EmptyFoundations(k) ==
    IF k = 0 THEN <<>>
    ELSE (Suits[k] :> <<>>) @@ EmptyFoundations(k - 1)

\* The rest of the deck becomes the stock, every card face up.
RECURSIVE Unhide(_)
Unhide(items) ==
    IF items = <<>> THEN <<>>
    ELSE <<[Head(items) EXCEPT !.hidden = FALSE]>> \o Unhide(Tail(items))

DealStock(deck, np) == Unhide(SubSeq(deck, 1, Len(deck) - Dealt(np)))


(***************************************************************************)
(* The engine, as functions of the game g = [stock, waste, foundations,    *)
(* piles, history].  A pile object is named by a reference: <<"waste", 0>>,*)
(* <<"foundation", k>> (the k-th suit's) or <<"pile", i>> (column i).      *)
(* An operation yields [g |-> the game after it, ret |-> what it returned  *)
(* or raised: "None", "True", "False", "IndexError", "ValueError"].        *)
(***************************************************************************)
WasteRef == <<"waste", 0>>

FoundationRef(k) == <<"foundation", k>>

PileRef(i) == <<"pile", i>>

SuitIndex(suit) == CHOOSE k \in 1..Len(Suits) : Suits[k] = suit

\* pile.items of the pile object ref
Items(g, ref) ==
    IF ref[1] = "waste" THEN g.waste
    ELSE IF ref[1] = "foundation" THEN g.foundations[Suits[ref[2]]]
    ELSE g.piles[ref[2]]

\* the game with pile.items of the pile object ref set to items
SetItems(g, ref, items) ==
    IF ref[1] = "waste" THEN [g EXCEPT !.waste = items]
    ELSE IF ref[1] = "foundation"
         THEN [g EXCEPT !.foundations[Suits[ref[2]]] = items]
    ELSE [g EXCEPT !.piles[ref[2]] = items]

\* the 'd' entry that process_input appends after draw()
DrawEntry ==
    [tag |-> "d", origin |-> WasteRef, destination |-> WasteRef,
     num_cards |-> 0, hidden |-> FALSE]

\* the tuple (origin_pile, destination_pile, num_cards, hidden)
TransferEntry(o, d, n, h) ==
    [tag |-> "t", origin |-> o, destination |-> d, num_cards |-> n, hidden |-> h]

\* A variant of is_valid_move without the colour tests.
is_valid_move_any_colour(card1, card2) ==
    IF card1.hidden THEN FALSE
    ELSE IF card1.rank # card2.rank - 1 THEN FALSE
    ELSE TRUE

\* A variant of is_valid_move without the rank test.
is_valid_move_any_rank(card1, card2) ==
    IF card1.hidden THEN FALSE
    ELSE IF is_red(card1) /\ is_red(card2) THEN FALSE
    ELSE IF is_black(card1) /\ is_black(card2) THEN FALSE
    ELSE TRUE

\* Solitaire.is_valid_move(card1, card2)
is_valid_move(card1, card2) ==
    IF card1.hidden THEN FALSE
    ELSE IF is_red(card1) /\ is_red(card2) THEN FALSE
    ELSE IF is_black(card1) /\ is_black(card2) THEN FALSE
    ELSE IF card1.rank # card2.rank - 1 THEN FALSE
    ELSE TRUE

\* A variant of IsTopRank that also takes the rank below max_rank.
IsTopRankOrNext(card, mr) == card.rank >= mr - 1

\* A variant of FoundationAccepts that takes any card onto a non-empty
\* foundation.
FoundationAcceptsAnyRank(fi, card) ==
    \/ fi = <<>> /\ card.rank = 1
    \/ fi # <<>>

\* A variant of FoundationAccepts that starts a foundation with any card.
FoundationAcceptsAnyStart(fi, card) ==
    \/ fi = <<>>
    \/ fi # <<>> /\ peek(fi, 1).rank = card.rank - 1

\* origin_pile.peek(num_cards).rank == self.max_rank
IsTopRank(card, mr) == card.rank = mr

\* The two accepting branches of move_to_foundation, for the foundation's
\* items fi and the card on top of the pile.
FoundationAccepts(fi, card) ==
    \/ fi = <<>> /\ card.rank = 1
    \/ fi # <<>> /\ peek(fi, 1).rank = card.rank - 1

\* CardPile.__eq__ on two pile objects: their items lists are equal
PileEq(g, o, d) == Items(g, o) = Items(g, d)

\* destination_pile.extend(origin_pile.cut(num_cards))
CutExtend(g, o, d, n) ==
    LET moved == CutItems(Items(g, o), n)
        g1 == SetItems(g, o, CutRest(Items(g, o), n))
    IN  SetItems(g1, d, extend(Items(g1, d), moved))

\* A variant of RecordAndReveal that records hidden = False in every entry.
RecordAndRevealNoFlag(g, o, d, n) ==
    IF Items(g, o) # <<>>
    THEN LET g1 == [g EXCEPT !.history = Append(@, TransferEntry(o, d, n, FALSE))]
         IN  SetItems(g1, o, SetTopHidden(Items(g1, o), FALSE))
    ELSE [g EXCEPT !.history = Append(@, TransferEntry(o, d, n, FALSE))]

\* A variant of RecordAndReveal that leaves the origin's new top card as it
\* is.
RecordWithoutReveal(g, o, d, n) ==
    IF Items(g, o) # <<>>
    THEN [g EXCEPT !.history =
                      Append(@, TransferEntry(o, d, n, peek(Items(g, o), 1).hidden))]
    ELSE [g EXCEPT !.history = Append(@, TransferEntry(o, d, n, FALSE))]

\* The tail of move and of move_to_foundation: the history entry, and the
\* reveal of the origin's new top card.
RecordAndReveal(g, o, d, n) ==
    IF Items(g, o) # <<>>
    THEN LET h == peek(Items(g, o), 1).hidden
             g1 == [g EXCEPT !.history = Append(@, TransferEntry(o, d, n, h))]
         IN  SetItems(g1, o, SetTopHidden(Items(g1, o), FALSE))
    ELSE [g EXCEPT !.history = Append(@, TransferEntry(o, d, n, FALSE))]

\* A variant of draw whose recycle keeps the order of the waste.
draw_unreversed(g) ==
    IF g.stock = <<>>
    THEN [g EXCEPT !.stock = extend(@, CutItems(g.waste, Len(g.waste))),
                   !.waste = CutRest(g.waste, Len(g.waste))]
    ELSE [g EXCEPT !.waste = add_top(@, g.stock[Len(g.stock)]),
                   !.stock = SubSeq(g.stock, 1, Len(g.stock) - 1)]

\* Solitaire.draw
draw(g) ==
    IF g.stock = <<>>
    THEN [g EXCEPT !.stock = extend(@, reversed(CutItems(g.waste, Len(g.waste)))),
                   !.waste = CutRest(g.waste, Len(g.waste))]
    ELSE [g EXCEPT !.waste = add_top(@, g.stock[Len(g.stock)]),
                   !.stock = SubSeq(g.stock, 1, Len(g.stock) - 1)]

\* Solitaire.move(origin_pile, destination_pile, num_cards) with max_rank mr
move(g, mr, o, d, n) ==
    LET oi == Items(g, o)
        di == Items(g, d)
    IN  IF Len(oi) < n THEN [g |-> g, ret |-> "None"]
        ELSE IF PileEq(g, o, d) THEN [g |-> g, ret |-> "None"]
        ELSE IF PeekIndex(oi, n) = 0 THEN [g |-> g, ret |-> "IndexError"]
        ELSE IF di = <<>> /\ IsTopRank(peek(oi, n), mr)
             THEN [g |-> RecordAndReveal(CutExtend(g, o, d, n), o, d, n),
                   ret |-> "None"]
        ELSE IF di = <<>> THEN [g |-> g, ret |-> "IndexError"]
        ELSE IF is_valid_move(peek(oi, n), peek(di, 1))
             THEN [g |-> RecordAndReveal(CutExtend(g, o, d, n), o, d, n),
                   ret |-> "None"]
        ELSE [g |-> g, ret |-> "False"]

\* Solitaire.move_to_foundation(pile)
move_to_foundation(g, o) ==
    LET oi == Items(g, o)
    IN  IF oi = <<>> THEN [g |-> g, ret |-> "None"]
        ELSE
        LET top == peek(oi, 1)
            d == FoundationRef(SuitIndex(top.suit))
            fi == Items(g, d)
            g1 == SetItems(SetItems(g, o, SubSeq(oi, 1, Len(oi) - 1)),
                           d, add_top(fi, top))
        IN  IF FoundationAccepts(fi, top)
            THEN [g |-> RecordAndReveal(g1, o, d, 1), ret |-> "True"]
            ELSE [g |-> g, ret |-> "False"]

\* A variant of undo that takes the oldest entry of the history.
undo_oldest(g) ==
    IF g.history = <<>> THEN [g |-> g, ret |-> "None"]
    ELSE
    LET last_move == g.history[1]
        g0 == [g EXCEPT !.history = Tail(@)]
    IN  IF last_move.tag = "d" /\ g0.waste = <<>>
        THEN [g |-> [g0 EXCEPT
                       !.waste = extend(@, reversed(CutItems(g0.stock, Len(g0.stock)))),
                       !.stock = CutRest(g0.stock, Len(g0.stock))],
              ret |-> "None"]
        ELSE IF last_move.tag = "d"
        THEN [g |-> [g0 EXCEPT
                       !.stock = add_top(@, g0.waste[Len(g0.waste)]),
                       !.waste = SubSeq(g0.waste, 1, Len(g0.waste) - 1)],
              ret |-> "None"]
        ELSE
        LET o == last_move.origin
            d == last_move.destination
        IN  IF last_move.hidden /\ Items(g0, o) = <<>>
            THEN [g |-> g0, ret |-> "IndexError"]
            ELSE
            LET g1 == IF last_move.hidden
                      THEN SetItems(g0, o, SetTopHidden(Items(g0, o), TRUE))
                      ELSE g0
            IN  [g |-> CutExtend(g1, d, o, last_move.num_cards), ret |-> "None"]

\* Solitaire.undo
undo(g) ==
    IF g.history = <<>> THEN [g |-> g, ret |-> "None"]
    ELSE
    LET last_move == g.history[Len(g.history)]
        g0 == [g EXCEPT !.history = SubSeq(@, 1, Len(@) - 1)]
    IN  IF last_move.tag = "d" /\ g0.waste = <<>>
        THEN [g |-> [g0 EXCEPT
                       !.waste = extend(@, reversed(CutItems(g0.stock, Len(g0.stock)))),
                       !.stock = CutRest(g0.stock, Len(g0.stock))],
              ret |-> "None"]
        ELSE IF last_move.tag = "d"
        THEN [g |-> [g0 EXCEPT
                       !.stock = add_top(@, g0.waste[Len(g0.waste)]),
                       !.waste = SubSeq(g0.waste, 1, Len(g0.waste) - 1)],
              ret |-> "None"]
        ELSE
        LET o == last_move.origin
            d == last_move.destination
        IN  IF last_move.hidden /\ Items(g0, o) = <<>>
            THEN [g |-> g0, ret |-> "IndexError"]
            ELSE
            LET g1 == IF last_move.hidden
                      THEN SetItems(g0, o, SetTopHidden(Items(g0, o), TRUE))
                      ELSE g0
            IN  [g |-> CutExtend(g1, d, o, last_move.num_cards), ret |-> "None"]

\* A variant of is_complete without the test of the waste.
is_complete_no_waste(g) ==
    /\ g.stock = <<>>
    /\ \A p \in DOMAIN g.piles :
          \A i \in DOMAIN g.piles[p] : ~g.piles[p][i].hidden

\* Solitaire.is_complete
is_complete(g) ==
    /\ g.stock = <<>>
    /\ g.waste = <<>>
    /\ \A p \in DOMAIN g.piles :
          \A i \in DOMAIN g.piles[p] : ~g.piles[p][i].hidden


(***************************************************************************)
(* The state: the fields of Solitaire, and the position of play().         *)
(***************************************************************************)
VARIABLES
    max_rank,       \* self.max_rank
    stock,          \* self.stock.items
    waste,          \* self.waste.items
    foundations,    \* self.foundations: suit -> items
    piles,          \* self.piles: column -> items
    history,        \* self.history
    move_number,    \* self.move_number
    game_state,     \* self.game_state
    pc,             \* where play() is: "loop", "count", "final", "won", "returned"
    num_moves,      \* play's local num_moves
    request,        \* the input that process_input read in this iteration
    ret,            \* what the engine call of this iteration returned or raised
    before,         \* the game when this iteration began
    final_pos       \* the column the finalization pass is at (0: between passes)

vars == <<max_rank, stock, waste, foundations, piles, history, move_number,
          game_state, pc, num_moves, request, ret, before, final_pos>>

\* self.num_piles
num_piles == NumPiles(max_rank)

Game ==
    [stock |-> stock, waste |-> waste, foundations |-> foundations,
     piles |-> piles, history |-> history]

\* Solitaire.__init__(max_rank) with the shuffle drawn from seed
NewGame(mr, seed) ==
    LET deck == Shuffle(NewDeck(mr), 4 * mr, seed)
    IN  [stock |-> DealStock(deck, NumPiles(mr)),
         waste |-> <<>>,
         foundations |-> EmptyFoundations(Len(Suits)),
         piles |-> DealPiles(deck, NumPiles(mr)),
         history |-> <<>>]

NoRequest == [op |-> "none", n |-> 0, p1 |-> 0, p2 |-> 0]

InitWith(ranks) ==
    \E mr \in ranks, seed \in 1..NumDeals :
        LET g == NewGame(mr, seed)
        IN  /\ max_rank = mr
            /\ stock = g.stock
            /\ waste = g.waste
            /\ foundations = g.foundations
            /\ piles = g.piles
            /\ history = g.history
            /\ move_number = 1
            /\ game_state = "DEFAULT"
            /\ pc = "loop"
            /\ num_moves = 0
            /\ request = NoRequest
            /\ ret = "None"
            /\ before = g
            /\ final_pos = 0

Init == InitWith(1..MaxRankBound)

(***************************************************************************)
(* process_input: the input is read as a request [op, n, p1, p2].          *)
(*   "d", "u", "i", "reset", "quit"  the one-word commands                 *)
(*   "m"    m<n>, then column p1, then column p2                           *)
(*   "ftp"  f<p1>, then column p2                                          *)
(*   "wtf"  w, f        "wtp"  w, column p2                                *)
(*   "ptf"  column p1, f       "ptp"  column p1, column p2                 *)
(***************************************************************************)
InRange(np, p) == 1 <= p /\ p <= np

process_input(g, mr, np, r) ==
    IF r.op = "d"
    THEN [g |-> [draw(g) EXCEPT !.history = Append(@, DrawEntry)], ret |-> "None"]
    ELSE IF r.op = "u" THEN undo(g)
    ELSE IF r.op = "m"
    THEN IF InRange(np, r.p1) /\ InRange(np, r.p2)
         THEN move(g, mr, PileRef(r.p1), PileRef(r.p2), r.n)
         ELSE [g |-> g, ret |-> "None"]
    ELSE IF r.op = "ftp" /\ InRange(np, r.p2)
    THEN IF r.p1 - 1 >= Len(Suits) \/ r.p1 - 1 < 0 - Len(Suits)
         THEN [g |-> g, ret |-> "IndexError"]
         ELSE IF 1 <= r.p1 /\ r.p1 <= 4
         THEN move(g, mr, FoundationRef(r.p1), PileRef(r.p2), 1)
         ELSE [g |-> g, ret |-> "ValueError"]
    ELSE IF r.op = "wtf" THEN move_to_foundation(g, WasteRef)
    ELSE IF r.op = "wtp" /\ InRange(np, r.p2)
    THEN move(g, mr, WasteRef, PileRef(r.p2), 1)
    ELSE IF r.op = "ptf" /\ InRange(np, r.p1)
    THEN move_to_foundation(g, PileRef(r.p1))
    ELSE IF r.op = "ptp" /\ InRange(np, r.p1) /\ InRange(np, r.p2)
    THEN move(g, mr, PileRef(r.p1), PileRef(r.p2), 1)
    ELSE IF r.op \in {"reset", "quit"} THEN [g |-> g, ret |-> "None"]
    ELSE [g |-> g, ret |-> "ValueError"]

\* The foundation numbers of the 'f<number>' input: 1..4 name a foundation;
\* list(self.foundations)[number - 1] takes the numbers -3..0 as an index
\* from the end, so that they reach the ValueError of the range test (0
\* stands for them), and raises IndexError on any number above 4 (5 stands
\* for them) and on any number below -3 (-4 stands for them).
FoundationNumbers == {-4} \cup (0..5)

\* The inputs of the model; column 0 stands for the column numbers out of
\* range.
Requests(np, counts) ==
    [op : {"d", "u", "i", "reset", "quit", "wtf"}, n : {1}, p1 : {0}, p2 : {0}]
    \cup [op : {"m"}, n : counts, p1 : 0..np, p2 : 0..np]
    \cup [op : {"ftp"}, n : {1}, p1 : FoundationNumbers, p2 : 0..np]
    \cup [op : {"wtp"}, n : {1}, p1 : {0}, p2 : 0..np]
    \cup [op : {"ptf"}, n : {1}, p1 : 0..np, p2 : {0}]
    \cup [op : {"ptp"}, n : {1}, p1 : 0..np, p2 : 0..np]

AllCounts == (0 - NegCounts)..MaxCount

PosCounts == 1..MaxCount

SetGame(g) ==
    /\ stock' = g.stock
    /\ waste' = g.waste
    /\ foundations' = g.foundations
    /\ piles' = g.piles
    /\ history' = g.history

(***************************************************************************)
(* play()                                                                  *)
(***************************************************************************)
\* One iteration of the while loop up to the end of the try block.
Request(counts) ==
    /\ pc = "loop"
    /\ ~is_complete(Game)
    /\ game_state = "DEFAULT"
    /\ move_number <= MaxMoves
    /\ \E r \in Requests(num_piles, counts) :
          LET res == process_input(Game, max_rank, num_piles, r)
          IN  /\ SetGame(res.g)
              /\ ret' = res.ret
              /\ request' = r
              /\ game_state' = IF r.op = "reset" THEN "RESET"
                               ELSE IF r.op = "quit" THEN "QUIT"
                               ELSE game_state
    /\ num_moves' = Len(history)
    /\ before' = Game
    /\ pc' = "count"
    /\ UNCHANGED <<max_rank, move_number, final_pos>>

\* A variant of Count that counts every iteration.
CountEveryIteration ==
    /\ pc = "count"
    /\ move_number' = move_number + 1
    /\ pc' = "loop"
    /\ request' = NoRequest
    /\ ret' = "None"
    /\ before' = Game
    /\ UNCHANGED <<max_rank, stock, waste, foundations, piles, history,
                   game_state, num_moves, final_pos>>

\* The end of the iteration: the move counter.
Count ==
    /\ pc = "count"
    /\ move_number' = IF Len(history) # num_moves
                      THEN move_number + 1 ELSE move_number
    /\ pc' = "loop"
    /\ request' = NoRequest
    /\ ret' = "None"
    /\ before' = Game
    /\ UNCHANGED <<max_rank, stock, waste, foundations, piles, history,
                   game_state, num_moves, final_pos>>

\* The loop ends on reset or quit: play returns the game state.
Return ==
    /\ pc = "loop"
    /\ game_state # "DEFAULT"
    /\ pc' = "returned"
    /\ UNCHANGED <<max_rank, stock, waste, foundations, piles, history,
                   move_number, game_state, num_moves, request, ret, before,
                   final_pos>>

\* The loop ends on a complete game: the finalization begins.
Complete ==
    /\ pc = "loop"
    /\ game_state = "DEFAULT"
    /\ is_complete(Game)
    /\ pc' = "final"
    /\ final_pos' = 0
    /\ UNCHANGED <<max_rank, stock, waste, foundations, piles, history,
                   move_number, game_state, num_moves, request, ret, before>>

\* while list(filter(lambda pile: not pile.is_empty(), self.piles))
FinalCheck ==
    /\ pc = "final"
    /\ final_pos = 0
    /\ IF \E p \in DOMAIN piles : piles[p] # <<>>
       THEN pc' = "final" /\ final_pos' = num_piles
       ELSE pc' = "won" /\ final_pos' = 0
    /\ before' = Game
    /\ UNCHANGED <<max_rank, stock, waste, foundations, piles, history,
                   move_number, game_state, num_moves, request, ret>>

\* for pile in reversed(self.piles): self.move_to_foundation(pile)
FinalStep ==
    /\ pc = "final"
    /\ final_pos > 0
    /\ LET res == move_to_foundation(Game, PileRef(final_pos))
       IN  SetGame(res.g) /\ ret' = res.ret
    /\ final_pos' = final_pos - 1
    /\ before' = Game
    /\ UNCHANGED <<max_rank, move_number, game_state, pc, num_moves, request>>

Next ==
    \/ Request(AllCounts)
    \/ Count
    \/ Return
    \/ Complete
    \/ FinalCheck
    \/ FinalStep

Spec == Init /\ [][Next]_vars

\* The same program when the 'm' command only submits counts >= 1.
NextPos ==
    \/ Request(PosCounts)
    \/ Count
    \/ Return
    \/ Complete
    \/ FinalCheck
    \/ FinalStep

SpecPos == Init /\ [][NextPos]_vars


(***************************************************************************)
(* Vocabulary of the properties.  In a state with pc = "count" the request *)
(* of the iteration has been processed: before is the game it found, Game  *)
(* the game it left.                                                       *)
(***************************************************************************)
Processed == pc = "count"

\* the piles of a game, without its history
Board(g) ==
    [stock |-> g.stock, waste |-> g.waste, foundations |-> g.foundations,
     piles |-> g.piles]

\* the request pushed one history entry
Accepted == Processed /\ Len(history) = Len(before.history) + 1

\* the request made process_input call move(origin, destination, count)
TransferRequest ==
    /\ Processed
    /\ \/ request.op \in {"m", "ptp"} /\ InRange(num_piles, request.p1)
                                      /\ InRange(num_piles, request.p2)
       \/ request.op = "ftp" /\ InRange(4, request.p1)
                             /\ InRange(num_piles, request.p2)
       \/ request.op = "wtp" /\ InRange(num_piles, request.p2)

TOrigin ==
    IF request.op = "ftp" THEN FoundationRef(request.p1)
    ELSE IF request.op = "wtp" THEN WasteRef
    ELSE PileRef(request.p1)

TDest == PileRef(request.p2)

TCount == request.n

SrcBefore == Items(before, TOrigin)

DstBefore == Items(before, TDest)

\* the request made process_input call move_to_foundation(pile)
MtfRequest ==
    /\ Processed
    /\ \/ request.op = "wtf"
       \/ request.op = "ptf" /\ InRange(num_piles, request.p1)

MtfPile == IF request.op = "wtf" THEN WasteRef ELSE PileRef(request.p1)

Top(items) == items[Len(items)]

\* the lowest card of the group of count cards on top of items
BaseOf(items, count) == items[Len(items) - count + 1]

Red(card) == card.suit \in {"HEARTS", "DIAMONDS"}

\* card a is one rank below card b and of the other colour
Continues(a, b) == a.rank = b.rank - 1 /\ Red(a) # Red(b)

\* the card continues its suit's foundation in game g
ContinuesFoundation(g, card) ==
    LET fi == g.foundations[card.suit]
    IN  \/ fi = <<>> /\ card.rank = 1
        \/ fi # <<>> /\ Top(fi).rank = card.rank - 1

RECURSIVE Flatten(_)
Flatten(ss) == IF ss = <<>> THEN <<>> ELSE Head(ss) \o Flatten(Tail(ss))

\* every card of the game, pile after pile
AllCards(g) ==
    g.stock \o g.waste
    \o Flatten([k \in 1..Len(Suits) |-> g.foundations[Suits[k]]])
    \o Flatten(g.piles)

(***************************************************************************)
(* C1  Conservation                                                        *)
(***************************************************************************)
\* C1: in every state reachable by draw, transfers of any count (accepted,
\* rejected or invalid), moves to a foundation and undo, the piles together
\* hold 4 * max_rank cards and every (rank, suit) pair exactly once.
C1_Conservation ==
    LET cards == AllCards(Game)
    IN  /\ Len(cards) = 4 * max_rank
        /\ \A r \in 1..max_rank, s \in SuitSet :
              Cardinality({i \in DOMAIN cards :
                              cards[i].rank = r /\ cards[i].suit = s}) = 1

\* An undo has just inverted a transfer entry whose count is zero or
\* negative, and it has moved cards.
C1_Witness ==
    /\ Processed
    /\ request.op = "u"
    /\ before.history # <<>>
    /\ Top(before.history).tag = "t"
    /\ Top(before.history).num_cards <= 0
    /\ Board(Game) # Board(before)

(***************************************************************************)
(* C2  Undo inverts exactly                                                *)
(***************************************************************************)
\* C2: after an accepted transfer with count >= 1, an accepted move to a
\* foundation or a draw, an immediate undo() gives back the game the request
\* found: every pile's contents and order, every hidden flag, the history.
C2_UndoInverts ==
    (/\ Accepted
     /\ \/ TransferRequest /\ TCount >= 1
        \/ MtfRequest
        \/ request.op = "d")
    => undo(Game) = [g |-> before, ret |-> "None"]

\* A draw on an empty stock has just recycled a non-empty waste.
C2_Witness ==
    /\ Accepted
    /\ request.op = "d"
    /\ before.stock = <<>>
    /\ before.waste # <<>>
    /\ waste = <<>>

(***************************************************************************)
(* C3  No-op on rule violation                                             *)
(***************************************************************************)
\* the transfer request breaks one of the rules C3 names
C3_TransferViolates ==
    /\ TransferRequest
    /\ \/ TOrigin = TDest
       \/ TCount >= 1 /\ Len(SrcBefore) < TCount
       \/ /\ TCount >= 1
          /\ Len(SrcBefore) >= TCount
          /\ DstBefore # <<>>
          /\ ~Continues(BaseOf(SrcBefore, TCount), Top(DstBefore))

\* the card the request would move does not continue its foundation
C3_MtfViolates ==
    /\ MtfRequest
    /\ Items(before, MtfPile) # <<>>
    /\ ~ContinuesFoundation(before, Top(Items(before, MtfPile)))

\* C3: a transfer that breaks a rule (same pile, fewer than count cards, or a
\* base card that is not one rank below and of the other colour than the
\* destination's top) and a move to a foundation whose card does not
\* continue the foundation change no pile, no hidden flag and no history.
C3_NoOpOnViolation ==
    (C3_TransferViolates \/ C3_MtfViolates) => Game = before

\* A transfer of two or more cards onto a non-empty column was refused
\* because its base card does not continue the destination's top.
C3_Witness ==
    /\ C3_TransferViolates
    /\ TCount >= 2
    /\ Len(SrcBefore) >= TCount
    /\ DstBefore # <<>>
    /\ ~BaseOf(SrcBefore, TCount).hidden
    /\ ret = "False"

(***************************************************************************)
(* C4  A count of zero or less                                             *)
(***************************************************************************)
\* C4: a transfer request ('m<number>') whose count is zero or negative
\* changes no pile and no hidden flag and pushes no history entry.
C4_NonPositiveCountNoOp ==
    (TransferRequest /\ TCount <= 0) => Game = before

(***************************************************************************)
(* C5  The base of a move is face up                                       *)
(***************************************************************************)
\* C5: in every accepted transfer with count >= 1 the lowest card of the
\* moved group was face up when the transfer was made, whether the
\* destination was empty or not.
C5_BaseFaceUp ==
    (TransferRequest /\ Accepted /\ TCount >= 1)
    => ~BaseOf(SrcBefore, TCount).hidden

(***************************************************************************)
(* C6  Foundations                                                         *)
(***************************************************************************)
\* C6: when counts are >= 1, every foundation holds, bottom to top, the
\* cards of its own suit of ranks 1, 2, ..., k.
C6_FoundationsAscend ==
    \A s \in SuitSet :
        \A i \in DOMAIN foundations[s] :
            foundations[s][i].suit = s /\ foundations[s][i].rank = i

\* A card has just been moved from a foundation that held at least two
\* cards back to a tableau column.
C6_Witness ==
    /\ TransferRequest
    /\ Accepted
    /\ request.op = "ftp"
    /\ Len(SrcBefore) >= 2

(***************************************************************************)
(* C7  Alternating descending order at the destination                     *)
(***************************************************************************)
\* C7 as stated: after an accepted transfer (count >= 1) onto a non-empty
\* destination, the destination's new top card is one rank below the
\* destination's prior top card and of the other colour.
C7_NewTopContinues ==
    (TransferRequest /\ Accepted /\ TCount >= 1 /\ DstBefore # <<>>)
    => Continues(Top(Items(Game, TDest)), Top(DstBefore))

\* C7 amended: after an accepted transfer (count >= 1) onto a non-empty
\* destination, the base card of the moved group - the card now lying
\* directly on the destination's prior top card - is one rank below that
\* prior top card and of the other colour; it is the destination's new top
\* card when count = 1.
C7_BaseContinues ==
    (TransferRequest /\ Accepted /\ TCount >= 1 /\ DstBefore # <<>>)
    => LET di == Items(Game, TDest)
       IN  /\ Len(di) = Len(DstBefore) + TCount
           /\ di[Len(DstBefore)] = Top(DstBefore)
           /\ Continues(di[Len(DstBefore) + 1], Top(DstBefore))
           /\ di[Len(DstBefore) + 1] = BaseOf(SrcBefore, TCount)
           /\ (TCount = 1 => Continues(Top(di), Top(DstBefore)))

\* Two or more cards have just been moved onto a non-empty column.
C7_Witness ==
    /\ TransferRequest
    /\ Accepted
    /\ TCount >= 2
    /\ DstBefore # <<>>

(***************************************************************************)
(* C8  The moved run                                                       *)
(***************************************************************************)
\* the cards form a chain: each is one rank below and of the other colour
\* than the card beneath it
IsChain(items) ==
    \A i \in 1..(Len(items) - 1) : Continues(items[i + 1], items[i])

\* C8: in every accepted transfer of more than one card between tableau
\* columns, the moved cards form a chain from base to top.
C8_MovedRunIsChain ==
    (TransferRequest /\ Accepted /\ request.op = "m" /\ TCount > 1)
    => IsChain(CutItems(SrcBefore, TCount))

(***************************************************************************)
(* C9  The empty column                                                    *)
(***************************************************************************)
\* the request is a transfer of count >= 1 cards from a pile that holds
\* at least count cards onto an empty tableau column
C9_OntoEmpty ==
    /\ TransferRequest
    /\ TCount >= 1
    /\ Len(SrcBefore) >= TCount
    /\ DstBefore = <<>>

\* C9: such a transfer is accepted if and only if its base card has rank
\* max_rank; with any other base card nothing changes.
C9_EmptyColumnRule ==
    C9_OntoEmpty
    => /\ Accepted <=> BaseOf(SrcBefore, TCount).rank = max_rank
       /\ BaseOf(SrcBefore, TCount).rank # max_rank => Game = before
       /\ Accepted => /\ Items(Game, TDest) = CutItems(SrcBefore, TCount)
                      /\ Len(Items(Game, TOrigin)) = Len(SrcBefore) - TCount

\* A transfer onto an empty column was refused: its base card is face up
\* and not of rank max_rank.
C9_Witness ==
    /\ C9_OntoEmpty
    /\ ~BaseOf(SrcBefore, TCount).hidden
    /\ BaseOf(SrcBefore, TCount).rank # max_rank
    /\ ~Accepted

(***************************************************************************)
(* C10  move_to_foundation                                                 *)
(***************************************************************************)
\* the game after the top card of pile ref has gone to its foundation,
\* hidden flags and history apart
AfterMtf(g, ref) ==
    LET c == Top(Items(g, ref))
        g1 == SetItems(g, ref, SubSeq(Items(g, ref), 1, Len(Items(g, ref)) - 1))
    IN  [g1 EXCEPT !.foundations[c.suit] = Append(@, c)]

RECURSIVE Faces(_)
Faces(items) ==
    IF items = <<>> THEN <<>>
    ELSE <<[rank |-> Head(items).rank, suit |-> Head(items).suit]>>
         \o Faces(Tail(items))

\* two games hold the same cards in the same piles in the same order
SameCards(g, h) ==
    /\ Faces(g.stock) = Faces(h.stock)
    /\ Faces(g.waste) = Faces(h.waste)
    /\ \A s \in SuitSet : Faces(g.foundations[s]) = Faces(h.foundations[s])
    /\ \A p \in DOMAIN g.piles : Faces(g.piles[p]) = Faces(h.piles[p])

\* C10: move_to_foundation(pile) is accepted if and only if the pile is not
\* empty and its top card continues the foundation of its suit; accepted, it
\* returns True, moves that one card to the top of that foundation and
\* pushes one history entry; otherwise it does not return True and changes
\* nothing.
C10_MoveToFoundation ==
    MtfRequest
    => LET pi == Items(before, MtfPile)
       IN  IF pi # <<>> /\ ContinuesFoundation(before, Top(pi))
           THEN /\ ret = "True"
                /\ SameCards(Game, AfterMtf(before, MtfPile))
                /\ Top(foundations[Top(pi).suit]) = Top(pi)
                /\ Len(history) = Len(before.history) + 1
                /\ SubSeq(history, 1, Len(before.history)) = before.history
           ELSE ret # "True" /\ Game = before

\* A card of rank 2 or more has just been moved onto its foundation.
C10_Witness ==
    /\ MtfRequest
    /\ ret = "True"
    /\ Len(foundations[Top(Items(before, MtfPile)).suit]) >= 2

(***************************************************************************)
(* C11  Draw and recycle                                                   *)
(***************************************************************************)
\* The inputs that concern the stock and the waste only.
DrawRequests ==
    [op : {"d", "u", "wtf"}, n : {1}, p1 : {0}, p2 : {0}]
    \cup [op : {"wtp"}, n : {1}, p1 : {0}, p2 : 1..num_piles]

\* One iteration of the while loop of play() on such an input.
DrawRequest ==
    /\ pc = "loop"
    /\ ~is_complete(Game)
    /\ game_state = "DEFAULT"
    /\ move_number <= MaxDraws
    /\ \E r \in DrawRequests :
          LET res == process_input(Game, max_rank, num_piles, r)
          IN  /\ SetGame(res.g)
              /\ ret' = res.ret
              /\ request' = r
    /\ num_moves' = Len(history)
    /\ before' = Game
    /\ pc' = "count"
    /\ UNCHANGED <<max_rank, move_number, game_state, final_pos>>

NextDraw ==
    \/ DrawRequest
    \/ Count

\* The program when the player only draws, undoes and plays the waste.
SpecDraw == Init /\ [][NextDraw]_vars

\* the game after k calls of draw()
RECURSIVE DrawN(_, _)
DrawN(g, k) == IF k = 0 THEN g ELSE DrawN(draw(g), k - 1)

\* C11: draw() with a non-empty stock moves the stock's top card to the top
\* of the waste and changes no other pile; draw() with an empty stock leaves
\* the waste empty and the stock holding the waste's cards in reversed order
\* (the card that was at the bottom of the waste on top), changes no other
\* pile, and as many draws as the waste held cards then rebuild the waste as
\* it was.
C11_DrawAndRecycle ==
    (Processed /\ request.op = "d")
    => /\ piles = before.piles
       /\ foundations = before.foundations
       /\ IF before.stock # <<>>
          THEN /\ waste = Append(before.waste, Top(before.stock))
               /\ stock = SubSeq(before.stock, 1, Len(before.stock) - 1)
          ELSE /\ waste = <<>>
               /\ Len(stock) = Len(before.waste)
               /\ \A i \in 1..Len(stock) :
                     stock[i] = before.waste[Len(before.waste) - i + 1]
               /\ DrawN(Game, Len(stock)).waste = before.waste
               /\ DrawN(Game, Len(stock)).stock = <<>>

\* A draw on an empty stock has just recycled a waste of three or more
\* cards.
C11_Witness ==
    /\ Processed
    /\ request.op = "d"
    /\ before.stock = <<>>
    /\ Len(before.waste) >= 3
    /\ waste = <<>>
    /\ Len(stock) >= 3

(***************************************************************************)
(* C12  The history is a stack                                             *)
(***************************************************************************)
\* every pile object of the game
AllRefs ==
    {WasteRef, <<"stock", 0>>}
    \cup {FoundationRef(k) : k \in 1..Len(Suits)}
    \cup {PileRef(i) : i \in 1..num_piles}

\* the items of any pile object, the stock included
ItemsOf(g, ref) == IF ref[1] = "stock" THEN g.stock ELSE Items(g, ref)

\* the piles on which the two games differ
Changed(g, h) == {ref \in AllRefs : ItemsOf(g, ref) # ItemsOf(h, ref)}

\* the top count cards of items
TopCards(items, count) == SubSeq(items, Len(items) - count + 1, Len(items))

\* the entry at the end of the history says what the request did
C12_EntryOfRequest ==
    LET e == Top(history)
    IN  IF request.op = "d" THEN e = DrawEntry
        ELSE IF MtfRequest
        THEN /\ e.tag = "t"
             /\ e.origin = MtfPile
             /\ e.destination =
                    FoundationRef(SuitIndex(Top(Items(before, MtfPile)).suit))
             /\ e.num_cards = 1
        ELSE /\ TransferRequest
             /\ e.tag = "t"
             /\ e.origin = TOrigin
             /\ e.destination = TDest
             /\ e.num_cards = TCount

\* the requests other than undo push at most one entry, at the end
C12_Push ==
    (Processed /\ request.op # "u")
    => IF request.op = "d" \/ Board(Game) # Board(before)
       THEN /\ Len(history) = Len(before.history) + 1
            /\ SubSeq(history, 1, Len(before.history)) = before.history
            /\ C12_EntryOfRequest
       ELSE history = before.history

\* undo pops the last entry and acts on the piles of that entry only
C12_Pop ==
    (Processed /\ request.op = "u")
    => IF before.history = <<>> THEN Game = before
       ELSE LET e == Top(before.history)
                n == e.num_cards
            IN  /\ history = SubSeq(before.history, 1, Len(before.history) - 1)
                /\ e.tag = "d" =>
                      /\ Changed(Game, before) \subseteq {WasteRef, <<"stock", 0>>}
                      /\ Len(stock) + Len(waste)
                            = Len(before.stock) + Len(before.waste)
                      /\ before.waste # <<>> =>
                            /\ stock = Append(before.stock, Top(before.waste))
                            /\ Append(waste, Top(before.waste)) = before.waste
                /\ e.tag = "t" =>
                      /\ Changed(Game, before) \subseteq {e.origin, e.destination}
                      /\ (n >= 1 /\ Len(Items(before, e.destination)) >= n) =>
                            /\ Faces(Items(Game, e.origin))
                                 = Faces(Items(before, e.origin))
                                   \o Faces(TopCards(Items(before, e.destination), n))
                            /\ Items(Game, e.destination) \o
                                 TopCards(Items(before, e.destination), n)
                                 = Items(before, e.destination)

\* C12: every accepted transfer, move to a foundation and draw appends one
\* entry at the end of the history and a rejected request appends none;
\* undo() on a non-empty history removes the last entry and moves cards
\* between the piles of that entry only, back from its destination to its
\* origin; undo() on an empty history changes nothing.
C12_HistoryIsStack == C12_Push /\ C12_Pop

\* An undo has just popped a transfer entry that had been pushed on top of
\* a draw entry, which is now the last entry.
C12_Witness ==
    /\ Processed
    /\ request.op = "u"
    /\ Len(before.history) >= 2
    /\ Top(before.history).tag = "t"
    /\ Top(before.history).num_cards >= 1
    /\ Top(history).tag = "d"
    /\ Board(Game) # Board(before)

(***************************************************************************)
(* C13  The finalization                                                   *)
(***************************************************************************)
\* One pass of the finalization over the columns p, p - 1, ..., 1:
\* for pile in reversed(self.piles): self.move_to_foundation(pile)
RECURSIVE FinalPass(_, _)
FinalPass(g, p) ==
    IF p = 0 THEN g
    ELSE FinalPass(move_to_foundation(g, PileRef(p)).g, p - 1)

\* A game of max_rank 3 as one shuffle deals it: stock 1D 2C 3C 3S 2S 1H,
\* columns [2H], [3D hidden, 1S], [1C hidden, 3H hidden, 2D].
ReplayDeal == NewGame(3, 2421)

Req(op, n, p1, p2) == [op |-> op, n |-> n, p1 |-> p1, p2 |-> p2]

\* The inputs of one player, entry by entry: '2','f'; 'd'; 'w','f';
\* 'f4','1'; 'd'; 'm-1','1','3'; 'u'; 'd'; 'd'; 'd'; '3','f'; 'w','f';
\* 'w','f'; 'd'; 'w','f'; 'w','3'; '1','f'; 'w','f'; '1','f'.
Script ==
    << Req("ptf", 1, 2, 0), Req("d", 1, 0, 0), Req("wtf", 1, 0, 0),
       Req("ftp", 1, 4, 1), Req("d", 1, 0, 0), Req("m", -1, 1, 3),
       Req("u", 1, 0, 0), Req("d", 1, 0, 0), Req("d", 1, 0, 0),
       Req("d", 1, 0, 0), Req("ptf", 1, 3, 0), Req("wtf", 1, 0, 0),
       Req("wtf", 1, 0, 0), Req("d", 1, 0, 0), Req("wtf", 1, 0, 0),
       Req("wtp", 1, 0, 3), Req("ptf", 1, 1, 0), Req("wtf", 1, 0, 0),
       Req("ptf", 1, 1, 0) >>

InitReplay ==
    /\ max_rank = 3
    /\ stock = ReplayDeal.stock
    /\ waste = ReplayDeal.waste
    /\ foundations = ReplayDeal.foundations
    /\ piles = ReplayDeal.piles
    /\ history = ReplayDeal.history
    /\ move_number = 1
    /\ game_state = "DEFAULT"
    /\ pc = "loop"
    /\ num_moves = 0
    /\ request = NoRequest
    /\ ret = "None"
    /\ before = ReplayDeal
    /\ final_pos = 0

\* One iteration of the while loop of play(): the player enters the next
\* input of the script (every input of it is counted as a move on this
\* deal), or an undo.
ReplayRequest ==
    /\ pc = "loop"
    /\ ~is_complete(Game)
    /\ game_state = "DEFAULT"
    /\ move_number <= Len(Script)
    /\ \E r \in {Script[move_number], Req("u", 1, 0, 0)} :
          LET res == process_input(Game, max_rank, num_piles, r)
          IN  /\ SetGame(res.g)
              /\ ret' = res.ret
              /\ request' = r
    /\ num_moves' = Len(history)
    /\ before' = Game
    /\ pc' = "count"
    /\ UNCHANGED <<max_rank, move_number, game_state, final_pos>>

NextReplay ==
    \/ ReplayRequest
    \/ Count
    \/ Complete
    \/ FinalCheck
    \/ FinalStep

\* The program on that deal, with that player.
SpecReplay == InitReplay /\ [][NextReplay]_vars

\* the number of cards on the foundations
OnFoundations(g) ==
    Len(Flatten([k \in 1..Len(Suits) |-> g.foundations[Suits[k]]]))

\* C13: whenever the game is complete and a column still holds a card -
\* when the play loop has ended or between two passes of the finalization -
\* the next pass over the columns moves at least one card to a foundation;
\* and when the finalization has ended every column is empty and the
\* foundations hold all 4 * max_rank cards.
C13_FinalizationProgresses ==
    /\ (/\ pc \in {"loop", "final"}
        /\ final_pos = 0
        /\ game_state = "DEFAULT"
        /\ is_complete(Game)
        /\ \E p \in DOMAIN piles : piles[p] # <<>>)
       => OnFoundations(FinalPass(Game, num_piles)) > OnFoundations(Game)
    /\ pc = "won"
       => /\ \A p \in DOMAIN piles : piles[p] = <<>>
          /\ OnFoundations(Game) = 4 * max_rank

(***************************************************************************)
(* C14  is_complete                                                        *)
(***************************************************************************)
\* the places of the hidden cards of the tableau
HiddenOnTableau(g) ==
    {<<p, i>> \in (DOMAIN g.piles) \X (1..(4 * max_rank)) :
        i <= Len(g.piles[p]) /\ g.piles[p][i].hidden}

\* what C14 says is_complete() is
CompleteBySpec(g) ==
    Len(g.stock) = 0 /\ Len(g.waste) = 0 /\ Cardinality(HiddenOnTableau(g)) = 0

\* the game with every card of the foundations turned face down
RECURSIVE Hide(_)
Hide(items) ==
    IF items = <<>> THEN <<>>
    ELSE <<[Head(items) EXCEPT !.hidden = TRUE]>> \o Hide(Tail(items))

\* C14: is_complete() is true if and only if the stock is empty, the waste
\* is empty and no card of a tableau column is hidden; emptying the
\* foundations or hiding their cards does not change it; the play loop
\* takes a request only when it is false and the finalization runs only
\* when it is true.
C14_Completion ==
    /\ is_complete(Game) <=> CompleteBySpec(Game)
    /\ is_complete([Game EXCEPT !.foundations = EmptyFoundations(Len(Suits))])
          <=> CompleteBySpec(Game)
    /\ is_complete([Game EXCEPT !.foundations =
                        [su \in SuitSet |-> Hide(foundations[su])]])
          <=> CompleteBySpec(Game)
    /\ Processed => ~CompleteBySpec(before)
    /\ pc \in {"final", "won"} => CompleteBySpec(Game)

\* A request has just left stock and waste empty and a foundation filled
\* while a tableau card is still hidden: the game is not complete.
C14_Witness ==
    /\ Processed
    /\ stock = <<>>
    /\ waste = <<>>
    /\ \E su \in SuitSet : foundations[su] # <<>>
    /\ HiddenOnTableau(Game) # {}
    /\ ~is_complete(Game)

(***************************************************************************)
(* C15  Rule violations fail silently                                      *)
(***************************************************************************)
\* the transfer request (count >= 1) has a base card that is not of rank
\* max_rank and an empty tableau column as its destination
C15_NonKingOntoEmpty ==
    /\ C9_OntoEmpty
    /\ TOrigin # TDest
    /\ BaseOf(SrcBefore, TCount).rank # max_rank

\* C15: a transfer that breaks a rule - same pile, fewer than count cards,
\* a base card that does not continue a non-empty destination, or a base
\* card not of rank max_rank onto an empty column - is not accepted and
\* raises no exception: move() returns None or False.
C15_SilentFailure ==
    (TransferRequest /\ (C3_TransferViolates \/ C15_NonKingOntoEmpty))
    => /\ ~Accepted
       /\ ret \in {"None", "False"}

(***************************************************************************)
(* C16  The reveal and the recorded flag                                   *)
(***************************************************************************)
\* the pile a transfer or a move to a foundation takes its cards from
C16_Source == IF MtfRequest THEN MtfPile ELSE TOrigin

\* after an accepted transfer or move to a foundation: the source's new top
\* card is face up and the entry's flag is the hidden state that card had;
\* the flag is false when the source has become empty
C16_Reveal ==
    (Accepted /\ (TransferRequest \/ MtfRequest))
    => LET src == Items(Game, C16_Source)
           e == Top(history)
       IN  IF src # <<>>
           THEN /\ ~Top(src).hidden
                /\ e.hidden = Items(before, C16_Source)[Len(src)].hidden
                /\ SubSeq(src, 1, Len(src) - 1)
                     = SubSeq(Items(before, C16_Source), 1, Len(src) - 1)
           ELSE e.hidden = FALSE

\* the count cards on top of items, all of them when there are fewer
C16_Returned(items, count) ==
    IF count <= 0 THEN <<>>
    ELSE IF count >= Len(items) THEN items
    ELSE TopCards(items, count)

\* on undo of a transfer entry: the source's top card is turned face down
\* exactly when the flag is true, and the count cards come back on top of
\* it in their order
C16_Rehide ==
    (/\ Processed
     /\ request.op = "u"
     /\ before.history # <<>>
     /\ Top(before.history).tag = "t")
    => LET e == Top(before.history)
           was == Items(before, e.origin)
           now == Items(Game, e.origin)
           back == C16_Returned(Items(before, e.destination), e.num_cards)
       IN  /\ ret = "None"
           /\ e.hidden => was # <<>>
           /\ now = (IF e.hidden THEN SetTopHidden(was, TRUE) ELSE was) \o back

\* C16: an accepted transfer or move to a foundation that leaves the source
\* non-empty turns the source's new top card face up and records in the
\* pushed entry whether that card was hidden; it records False when the
\* source becomes empty.  The undo of a transfer entry turns the source's
\* top card face down if and only if the flag is true, and puts the count
\* cards back on top of it in their original order.
C16_RevealAndFlag == C16_Reveal /\ C16_Rehide

\* An undo has just turned a revealed card face down again and put two or
\* more cards back on top of it.
C16_Witness ==
    /\ Processed
    /\ request.op = "u"
    /\ before.history # <<>>
    /\ Top(before.history).tag = "t"
    /\ Top(before.history).hidden
    /\ Top(before.history).num_cards >= 2
    /\ Len(Items(Game, Top(before.history).origin))
         = Len(Items(before, Top(before.history).origin)) + 2
    /\ Items(Game, Top(before.history).origin)
         [Len(Items(before, Top(before.history).origin))].hidden

(***************************************************************************)
(* C17  The move counter                                                   *)
(***************************************************************************)
\* the request of this iteration was a valid move: an accepted transfer, an
\* accepted move to a foundation, a draw, or an undo on a non-empty history
C17_ValidMove ==
    \/ request.op = "d"
    \/ request.op = "u" /\ before.history # <<>>
    \/ (TransferRequest \/ MtfRequest) /\ Board(Game) # Board(before)

\* the history length has changed exactly in the iterations with a valid
\* move, by one entry
C17_HistoryChanged ==
    Processed
    => /\ (Len(history) # Len(before.history)) <=> C17_ValidMove
       /\ ret \in {"False", "ValueError"} => Len(history) = Len(before.history)
       /\ Len(history) - Len(before.history) \in {-1, 0, 1}

\* the step that ends an iteration adds one to move_number exactly after a
\* valid move, and no other step changes move_number
C17_Step ==
    /\ pc = "count" =>
          move_number' = IF C17_ValidMove THEN move_number + 1 ELSE move_number
    /\ pc # "count" => move_number' = move_number

\* C17: in the play loop move_number grows by exactly one in an iteration
\* if and only if the iteration made a valid move, that is, the history
\* length differs from the one the iteration began with; rejected, invalid
\* and malformed requests and an undo on an empty history leave it as it
\* is, and so do the moves of the finalization.
C17_MoveCounter == [](C17_HistoryChanged) /\ [][C17_Step]_vars

\* The game has been won: move_number counts one draw, one move from the
\* waste and one from a column, and the finalization has pushed further
\* entries that were not counted.
C17_Witness ==
    /\ pc = "won"
    /\ move_number = 4
    /\ Len(history) > 3

(***************************************************************************)
(* C18  The face-up structure                                              *)
(***************************************************************************)
\* no card of items is hidden
AllFaceUp(items) == \A i \in DOMAIN items : ~items[i].hidden

\* C18: when counts are >= 1, every non-empty tableau column has a face-up
\* top card, no hidden card of a column lies above a face-up card, and no
\* card of the stock, of the waste or of a foundation is hidden.
C18_FaceUpStructure ==
    /\ \A p \in DOMAIN piles :
          /\ piles[p] # <<>> => ~Top(piles[p]).hidden
          /\ \A i, j \in DOMAIN piles[p] :
                (i < j /\ piles[p][j].hidden) => piles[p][i].hidden
    /\ AllFaceUp(stock)
    /\ AllFaceUp(waste)
    /\ \A su \in SuitSet : AllFaceUp(foundations[su])

\* An undo has just turned a column's top card face down again and put a
\* card back on it, in a game that has cards on the waste and on a
\* foundation.
C18_Witness ==
    /\ Processed
    /\ request.op = "u"
    /\ before.history # <<>>
    /\ Top(before.history).tag = "t"
    /\ Top(before.history).hidden
    /\ Top(before.history).origin[1] = "pile"
    /\ Len(Items(Game, Top(before.history).origin)) >= 2
    /\ waste # <<>>
    /\ \E su \in SuitSet : foundations[su] # <<>>

(***************************************************************************)
(* C19  The tableau runs                                                   *)
(***************************************************************************)
\* the face-up cards of a pile, bottom to top
RECURSIVE FaceUpCards(_)
FaceUpCards(items) ==
    IF items = <<>> THEN <<>>
    ELSE IF Head(items).hidden THEN FaceUpCards(Tail(items))
    ELSE <<Head(items)>> \o FaceUpCards(Tail(items))

\* C19: when counts are >= 1, the face-up cards of every tableau column
\* form, bottom to top, a chain: each card is one rank below the face-up
\* card beneath it and of the other colour.
C19_TableauRuns ==
    \A p \in DOMAIN piles : IsChain(FaceUpCards(piles[p]))

\* Two or more cards have just been moved onto a non-empty column, whose
\* face-up cards now number three or more.
C19_Witness ==
    /\ TransferRequest
    /\ Accepted
    /\ TCount >= 2
    /\ DstBefore # <<>>
    /\ Len(FaceUpCards(Items(Game, TDest))) >= 3

(***************************************************************************)
(* C20  Full unwinding                                                     *)
(***************************************************************************)
\* the game after undo() has been called until the history is empty
RECURSIVE UndoAll(_)
UndoAll(g) == IF g.history = <<>> THEN g ELSE UndoAll(undo(g).g)

\* the game after the request that pushed entry e is made again
Redo(g, e) ==
    IF e.tag = "d" THEN [draw(g) EXCEPT !.history = Append(@, DrawEntry)]
    ELSE RecordAndReveal(CutExtend(g, e.origin, e.destination, e.num_cards),
                         e.origin, e.destination, e.num_cards)

\* every undo of the unwinding of g returns normally, a transfer entry
\* finds its count of cards in its destination, and making the entry's
\* request again after its undo moves the same cards back and gives the
\* game the undo found
RECURSIVE UnwindOk(_)
UnwindOk(g) ==
    IF g.history = <<>> THEN TRUE
    ELSE LET e == Top(g.history)
             u == undo(g)
         IN  /\ u.ret = "None"
             /\ e.tag = "t" =>
                   /\ e.num_cards >= 1
                   /\ Len(Items(g, e.destination)) >= e.num_cards
                   /\ TopCards(Items(u.g, e.origin), e.num_cards)
                        = TopCards(Items(g, e.destination), e.num_cards)
             /\ Redo(u.g, e) = g
             /\ UnwindOk(u.g)

\* the game in the next state
GameNext ==
    [stock |-> stock', waste |-> waste', foundations |-> foundations',
     piles |-> piles', history |-> history']

\* no step of the program changes the game that the unwinding ends in
C20_Step == UndoAll(GameNext) = UndoAll(Game)

\* C20: when counts are >= 1, calling undo() until the history is empty
\* yields the initial deal - every pile, its order and every hidden flag -
\* (the deal unwinds to itself and no step changes what the unwinding
\* yields), and every transfer entry met on the way finds at least count
\* cards in its destination, the top count of which are the cards it moved.
C20_FullUnwinding ==
    /\ UndoAll(Game) = Game
    /\ [](UnwindOk(Game))
    /\ [][C20_Step]_vars

\* The history holds a draw, a move to a foundation and, last, a transfer
\* of two or more cards, and the unwinding changes the columns.
C20_Witness ==
    /\ Len(history) >= 3
    /\ Top(history).tag = "t"
    /\ Top(history).num_cards >= 2
    /\ \E i \in DOMAIN history : history[i].tag = "d"
    /\ \E i \in DOMAIN history :
          history[i].tag = "t" /\ history[i].destination[1] = "foundation"
    /\ UndoAll(Game).piles # piles
    /\ UndoAll(Game).history = <<>>

=============================================================================
